---- MODULE Spec2Model ----
(* Model of docker_nginx_daemon.py: the reconciliation pass (collect_hosts,   *)
(* generate_nginx_conf, reload_nginx, obtain_certificates) and the daemon's    *)
(* event loop, as one sequential process whose position is pc, together with  *)
(* its environment (platform, clock, shutdown signal).                         *)
EXTENDS Integers, Sequences, FiniteSets, TLC

\* ---------------------------------------------------------------- bounds
MaxContainers == 2      \* workloads listed by the platform
MaxTime == 2            \* clock values and expiry dates range over 0..MaxTime
MaxEvents == 1          \* events delivered by the platform stream

\* ---------------------------------------------------------------- values
LABEL_NAME == "export-host"
None == "None"                      \* Python's None (absent label, port)
Missing == "<missing>"              \* a key an event dict does not have
Hosts == {"a", "b"}
Labels == {None, ""} \cup Hosts     \* labels.get(LABEL_NAME)
\* NetworkSettings of a participating workload: (IPAddress, first port or None)
Endpoints == {<<"ip1", None>>, <<"ip2", "8080">>}

Container(l, e) == [label |-> l, ip |-> e[1], port |-> e[2]]
Containers ==
    {Container(l, <<"ip1", None>>) : l \in {None, ""}}
        \cup {Container(l, e) : l \in Hosts, e \in Endpoints}

RECURSIVE SeqsUpTo(_, _)
SeqsUpTo(S, n) ==
    IF n = 0 THEN {<<>>}
    ELSE LET shorter == SeqsUpTo(S, n - 1)
         IN  shorter \cup {Append(s, x) : s \in {t \in shorter : Len(t) = n - 1}, x \in S}

Platforms == SeqsUpTo(Containers, MaxContainers)

\* Events of the platform stream: Type, Action, and the Actor's attribute names
\* (HasActor = FALSE: the event has no Actor key).
Event(t, a, has, attrs) == [Type |-> t, Action |-> a, HasActor |-> has, Attributes |-> attrs]
NoEvent == Event(Missing, Missing, FALSE, {"<no event>"})
Events ==
    {Event("container", a, TRUE, {LABEL_NAME, "name"}) : a \in {"start", "stop", "die", "destroy"}}
        \cup {Event("container", "create", TRUE, {LABEL_NAME, "name"}),
              Event("network", "start", TRUE, {LABEL_NAME, "name"}),
              Event("container", "start", TRUE, {"name"}),
              Event("container", "die", FALSE, {}),
              Event(Missing, "start", TRUE, {LABEL_NAME, "name"}),
              Event("container", Missing, TRUE, {LABEL_NAME, "name"})}

VARIABLES
    containers,     \* client.containers.list(all=True), in listing order
    files,          \* NGINX_SITES_DIR: host |-> content of <host>.conf, for the files that exist
    dirExists,      \* whether NGINX_SITES_DIR exists
    certs,          \* CERTBOT_CERT_DIR: host |-> cert.pem, for the files that exist
    now,            \* datetime.utcnow()
    templateOk,     \* whether NGINX_TEMPLATE is a well-formed format string
    running,        \* the global flag
    pc,             \* position of the daemon process
    cause,          \* the exception that ended the process, if any
    event,          \* the event the for loop is handling
    hosts,          \* reconcile's local: the records collected by the current (last) pass
    idx,            \* obtain_certificates' loop position
    lastDomain,         \* argument of the last cert_is_valid call
    valid,          \* result of the last cert_is_valid call
    passNo,         \* passes started so far
    nEvents,        \* events delivered so far
    changed,        \* the platform changed since the current (last) pass listed it
    quiet,          \* the current (last) pass follows a pass, with no platform change
                    \* between the two listings
    prevFailed,     \* the reload command of the pass before the current (last) one failed
    passMkdir,      \* the current (last) pass called mkdir
    passWrites,     \* config files written by the current (last) pass
    passReloads,    \* reload commands run by the current (last) pass
    passFailed,     \* the reload command of the current (last) pass failed
    checked,        \* indices of hosts whose certificate the current (last) pass checked
    issued,         \* indices of hosts for which the pass ran the issuance command
    issueFailed     \* indices of hosts whose issuance command failed

vars == <<containers, files, dirExists, certs, now, templateOk, running, pc, cause,
          event, hosts, idx, lastDomain, valid, passNo, nEvents, changed, quiet, prevFailed,
          passMkdir, passWrites, passReloads, passFailed, checked, issued, issueFailed>>

platformVars == <<containers, changed>>
passVars == <<hosts, idx, lastDomain, valid, passNo, quiet, prevFailed>>
diskVars == <<files, dirExists>>
passObs == <<passMkdir, passWrites, passReloads, passFailed, checked, issued, issueFailed>>

\* ---------------------------------------------------------------- helpers
\* collect_hosts: the records of the workloads whose label is neither None nor "".
RECURSIVE collect_hosts(_)
collect_hosts(cs) ==
    IF cs = <<>> THEN <<>>
    ELSE LET container == Head(cs)
             host == container.label
         IN  IF host = None \/ host = ""
             THEN collect_hosts(Tail(cs))
             ELSE <<[host |-> host, ip |-> container.ip, port |-> container.port]>>
                      \o collect_hosts(Tail(cs))

\* NGINX_TEMPLATE.format(...): the three substituted values; trail counts the
\* whitespace after the body (the template ends with one newline).
Render(entry) ==
    [server_name |-> entry.host,
     ip |-> entry.ip,
     port |-> IF entry.port = None THEN "80" ELSE entry.port,
     trail |-> 1]

\* str.strip() on a file's text
strip(content) == [content EXCEPT !.trail = 0]

conf_exists(fs, host) == host \in DOMAIN fs

\* Faulty variant: a file that exists is never rewritten.
conf_needs_update_OnlyIfAbsent(fs, host, expected_content) == ~conf_exists(fs, host)

conf_needs_update(fs, host, expected_content) ==
    IF ~conf_exists(fs, host) THEN TRUE
    ELSE strip(fs[host]) # strip(expected_content)

\* Faulty variant: a write that clears the rest of the directory.
write_text_Prune(fs, host, content) == [h \in {host} |-> content]

write_text(fs, host, content) ==
    [h \in DOMAIN fs \cup {host} |-> IF h = host THEN content ELSE fs[h]]

\* The loop of generate_nginx_conf over exported_hosts, from the directory fs:
\* the directory after the loop and the number of writes.
RECURSIVE generate_nginx_conf(_, _, _)
generate_nginx_conf(fs, writes, exported_hosts) ==
    IF exported_hosts = <<>> THEN [files |-> fs, writes |-> writes]
    ELSE LET entry == Head(exported_hosts)
             conf_content == Render(entry)
         IN  IF conf_needs_update(fs, entry.host, conf_content)
             THEN generate_nginx_conf(write_text(fs, entry.host, conf_content),
                                      writes + 1, Tail(exported_hosts))
             ELSE generate_nginx_conf(fs, writes, Tail(exported_hosts))

\* cert.pem: whether ssl decodes it, and its notAfter
Cert(p, t) == [parses |-> p, notAfter |-> t]
CertLife == 1           \* a certificate issued at t expires at t + CertLife

ssl_exists(cs, domain) == domain \in DOMAIN cs

\* Faulty variant: a certificate that expires now still counts as valid.
cert_is_valid_NotBefore(cs, domain, t) ==
    IF ~ssl_exists(cs, domain) THEN FALSE
    ELSE IF ~cs[domain].parses THEN FALSE
    ELSE cs[domain].notAfter >= t

cert_is_valid(cs, domain, t) ==
    IF ~ssl_exists(cs, domain) THEN FALSE
    ELSE IF ~cs[domain].parses THEN FALSE       \* except Exception
    ELSE cs[domain].notAfter > t

\* The daemon loop's filter on one event: "KeyError", "skip" or "reconcile".
attrs(e) == IF e.HasActor THEN e.Attributes ELSE {}

\* Faulty variant: the label test of line 230 is left out.
HandleEvent_NoLabelCheck(e) ==
    IF e.Type = Missing THEN "KeyError"
    ELSE IF e.Type # "container" THEN "skip"
    ELSE IF e.Action = Missing THEN "KeyError"
    ELSE IF e.Action \in {"start", "stop", "die", "destroy"} THEN "reconcile"
    ELSE "skip"

HandleEvent(e) ==
    IF e.Type = Missing THEN "KeyError"
    ELSE IF e.Type # "container" THEN "skip"
    ELSE IF e.Action = Missing THEN "KeyError"
    ELSE IF LABEL_NAME \notin attrs(e) THEN "skip"
    ELSE IF e.Action \in {"start", "stop", "die", "destroy"} THEN "reconcile"
    ELSE "skip"

\* ---------------------------------------------------------------- initial state
\* A config directory left by an earlier run: files whose text is the rendering of
\* ("ip1", "80") without the trailing newline.
InitFiles ==
    {fs \in UNION {[D -> {[server_name |-> h, ip |-> "ip1", port |-> "80", trail |-> 0] : h \in Hosts}]
                      : D \in SUBSET Hosts} :
        \A h \in DOMAIN fs : fs[h].server_name = h}

\* A certificate directory in which some hosts hold a certificate that is valid at 1.
InitCerts == UNION {[D -> {Cert(TRUE, 2)}] : D \in SUBSET Hosts}

NoFiles == [h \in {} |-> 0]

\* Faulty variant: a daemon that enters its event loop without the pass of line 221.
InitProcess_NoStartupPass ==
    /\ now = 1
    /\ running = TRUE
    /\ pc = "watching"
    /\ cause = "none"
    /\ event = NoEvent
    /\ hosts = <<>>
    /\ idx = 1
    /\ lastDomain = None
    /\ valid = FALSE
    /\ passNo = 0
    /\ nEvents = 0
    /\ changed = FALSE
    /\ quiet = FALSE
    /\ prevFailed = FALSE
    /\ passMkdir = FALSE
    /\ passWrites = 0
    /\ passReloads = 0
    /\ passFailed = FALSE
    /\ checked = {}
    /\ issued = {}
    /\ issueFailed = {}

\* Everything but the platform, the two directories and the template.
InitProcess ==
    /\ now = 1
    /\ running = TRUE
    /\ pc = "reconcile"
    /\ cause = "none"
    /\ event = NoEvent
    /\ hosts = <<>>
    /\ idx = 1
    /\ lastDomain = None
    /\ valid = FALSE
    /\ passNo = 0
    /\ nEvents = 0
    /\ changed = FALSE
    /\ quiet = FALSE
    /\ prevFailed = FALSE
    /\ passMkdir = FALSE
    /\ passWrites = 0
    /\ passReloads = 0
    /\ passFailed = FALSE
    /\ checked = {}
    /\ issued = {}
    /\ issueFailed = {}

\* The daemon starts on any platform state, with either an earlier run's config
\* directory and no certificates, or no config files and any certificate directory.
Init ==
    /\ containers \in Platforms
    /\ templateOk \in BOOLEAN
    /\ \/ files \in InitFiles /\ dirExists = TRUE /\ certs = NoFiles
       \/ files = NoFiles /\ dirExists = FALSE /\ certs \in InitCerts
    /\ InitProcess

\* ---------------------------------------------------------------- the pass
Terminated == pc \in {"stopped", "crashed"}

Crash(exc) == pc' = "crashed" /\ cause' = exc

\* Faulty variant: reconcile without its early return.
AfterCollect_NoEarlyReturn(hs) == "generate"

\* reconcile, lines 165-168: the early return when no record was collected.
AfterCollect(hs) == IF hs = <<>> THEN "watching" ELSE "generate"

\* reconcile, lines 164-167: collect_hosts() and the early return. The listing
\* call may raise (platform unreachable); nothing catches it.
CollectHosts ==
    /\ pc = "reconcile"
    /\ passNo' = passNo + 1
    /\ quiet' = (passNo >= 1 /\ ~changed)
    /\ prevFailed' = passFailed
    /\ changed' = FALSE
    /\ passMkdir' = FALSE /\ passWrites' = 0 /\ passReloads' = 0 /\ passFailed' = FALSE
    /\ checked' = {} /\ issued' = {} /\ issueFailed' = {}
    /\ valid' = FALSE /\ idx' = 1 /\ lastDomain' = None
    /\ event' = NoEvent
    /\ \E listed \in BOOLEAN :
          IF ~listed
          THEN Crash("APIError") /\ hosts' = <<>>
          ELSE /\ hosts' = collect_hosts(containers)
               /\ pc' = AfterCollect(hosts')
               /\ cause' = cause
    /\ UNCHANGED <<containers, diskVars, certs, now, templateOk, running, nEvents>>

\* Faulty variant: a pass that skips the reload when it wrote no file.
GenerateNginxConf_ReloadOnlyAfterWrite ==
    /\ pc = "generate"
    /\ dirExists' = TRUE
    /\ passMkdir' = TRUE
    /\ IF templateOk
       THEN LET done == generate_nginx_conf(files, 0, hosts)
            IN  /\ files' = done.files
                /\ passWrites' = done.writes
                /\ pc' = IF done.writes > 0 THEN "reload" ELSE "certs"
                /\ cause' = cause
       ELSE Crash("ValueError") /\ UNCHANGED <<files, passWrites>>
    /\ UNCHANGED <<platformVars, certs, now, templateOk, running, event, passVars, nEvents,
                   passReloads, passFailed, checked, issued, issueFailed>>

\* generate_nginx_conf as a whole: mkdir, then the loop. A template that is not a
\* well-formed format string makes the first format call raise ValueError.
GenerateNginxConf ==
    /\ pc = "generate"
    /\ dirExists' = TRUE
    /\ passMkdir' = TRUE
    /\ IF templateOk
       THEN LET done == generate_nginx_conf(files, 0, hosts)
            IN  /\ files' = done.files
                /\ passWrites' = done.writes
                /\ pc' = "reload"
                /\ cause' = cause
       ELSE Crash("ValueError") /\ UNCHANGED <<files, passWrites>>
    /\ UNCHANGED <<platformVars, certs, now, templateOk, running, event, passVars, nEvents,
                   passReloads, passFailed, checked, issued, issueFailed>>

\* Faulty variant: a reload that is run a second time when it fails.
ReloadNginx_RetryOnce ==
    /\ pc = "reload"
    /\ passReloads' = passReloads + 1
    /\ \E ok \in BOOLEAN :
          /\ passFailed' = ~ok
          /\ pc' = IF ~ok /\ passReloads = 0 THEN "reload"
                   ELSE IF hosts = <<>> THEN "watching" ELSE "certs"
    /\ idx' = 1
    /\ UNCHANGED <<platformVars, diskVars, certs, now, templateOk, running, cause, event,
                   hosts, lastDomain, valid, passNo, quiet, prevFailed, nEvents, passMkdir,
                   passWrites, checked, issued, issueFailed>>

\* reload_nginx: the command runs; CalledProcessError is caught and reported.
ReloadNginx ==
    /\ pc = "reload"
    /\ passReloads' = passReloads + 1
    /\ \E ok \in BOOLEAN : passFailed' = ~ok
    /\ pc' = IF hosts = <<>> THEN "watching" ELSE "certs"
    /\ idx' = 1
    /\ UNCHANGED <<platformVars, diskVars, certs, now, templateOk, running, cause, event,
                   hosts, lastDomain, valid, passNo, quiet, prevFailed, nEvents, passMkdir,
                   passWrites, checked, issued, issueFailed>>

\* One iteration of obtain_certificates' loop, and the return after the last one.
\* subprocess.run(..., check=True) raises CalledProcessError when certbot fails.
ObtainCertificate ==
    /\ pc = "certs"
    /\ idx <= Len(hosts)
    /\ lastDomain' = hosts[idx].host
    /\ LET after == IF idx + 1 > Len(hosts) THEN "watching" ELSE "certs"
       IN  /\ valid' = cert_is_valid(certs, lastDomain', now)
           /\ checked' = checked \cup {idx}
           /\ IF valid'
              THEN /\ idx' = idx + 1
                   /\ pc' = after
                   /\ UNCHANGED <<certs, cause, issued, issueFailed>>
              ELSE /\ issued' = issued \cup {idx}
                   /\ \E ok \in BOOLEAN :
                         IF ok
                         THEN /\ certs' = [h \in DOMAIN certs \cup {lastDomain'} |->
                                              IF h = lastDomain' THEN Cert(TRUE, now + CertLife)
                                              ELSE certs[h]]
                              /\ idx' = idx + 1
                              /\ pc' = after
                              /\ UNCHANGED <<cause, issueFailed>>
                         ELSE /\ issueFailed' = issueFailed \cup {idx}
                              /\ Crash("CalledProcessError")
                              /\ UNCHANGED <<certs, idx>>
    /\ UNCHANGED <<platformVars, diskVars, now, templateOk, running, event, hosts, passNo,
                   quiet, prevFailed, nEvents, passMkdir, passWrites, passReloads, passFailed>>

\* ---------------------------------------------------------------- the event loop
\* for event in client.events(decode=True): the stream yields the next event.
NextEvent ==
    /\ pc = "watching"
    /\ nEvents < MaxEvents
    /\ nEvents' = nEvents + 1
    /\ \E e \in Events : event' = e
    /\ pc' = "event"
    /\ UNCHANGED <<platformVars, diskVars, certs, now, templateOk, running, cause,
                   passVars, passObs>>

\* The loop body, lines 224-234. The event stays in the loop variable while the
\* daemon waits for the next one and after the break; it is not read again once a
\* pass is started or an exception has left the loop.
LoopBody ==
    /\ pc = "event"
    /\ IF ~running
       THEN pc' = "stopped" /\ cause' = cause
       ELSE LET outcome == HandleEvent(event)
            IN  IF outcome = "KeyError" THEN Crash("KeyError")
                ELSE /\ pc' = IF outcome = "reconcile" THEN "reconcile" ELSE "watching"
                     /\ cause' = cause
    /\ event' = IF pc' \in {"watching", "stopped"} THEN event ELSE NoEvent
    /\ UNCHANGED <<platformVars, diskVars, certs, now, templateOk, running, passVars,
                   nEvents, passObs>>

\* ---------------------------------------------------------------- the environment
\* Faulty variant: a handler that ends the process at once.
SignalHandler_Preemptive ==
    /\ ~Terminated
    /\ running
    /\ running' = FALSE
    /\ pc' = "stopped"
    /\ UNCHANGED <<platformVars, diskVars, certs, now, templateOk, cause, event,
                   passVars, nEvents, passObs>>

\* signal_handler, on SIGINT or SIGTERM, at any point of the process
SignalHandler ==
    /\ ~Terminated
    /\ running
    /\ running' = FALSE
    /\ UNCHANGED <<platformVars, diskVars, certs, now, templateOk, pc, cause, event,
                   passVars, nEvents, passObs>>

\* docker rm / docker run: a workload leaves the listing, or a new one joins it.
\* The daemon reads the listing only in the first step of a pass, so a change
\* during a pass is taken here as a change made once the pass has ended; one change
\* is made between two passes, while an event can still start a pass that sees it.
PlatformChange ==
    /\ pc = "watching"
    /\ ~changed
    /\ nEvents < MaxEvents
    /\ \/ \E i \in 1..Len(containers) :
             containers' = SubSeq(containers, 1, i - 1) \o SubSeq(containers, i + 1, Len(containers))
       \/ /\ Len(containers) < MaxContainers
          /\ \E c \in Containers : containers' = Append(containers, c)
    /\ changed' = TRUE
    /\ UNCHANGED <<diskVars, certs, now, templateOk, running, pc, cause, event, passVars,
                   nEvents, passObs>>

Next ==
    \/ CollectHosts
    \/ GenerateNginxConf
    \/ ReloadNginx
    \/ ObtainCertificate
    \/ NextEvent
    \/ LoopBody
    \/ SignalHandler
    \/ PlatformChange

Spec == Init /\ [][Next]_vars

\* ---------------------------------------------------------------- progress
\* The daemon is a running process: each step of a pass and the loop body are taken
\* once reached, and the platform stream delivers its next event (as long as it has
\* one). The signal and the platform changes are under no obligation. The daemon
\* starts here on any platform, with empty config and certificate directories and a
\* well-formed template: the exit of the loop reads none of the three.
InitLive ==
    /\ containers \in Platforms
    /\ templateOk = TRUE
    /\ files = NoFiles /\ dirExists = FALSE /\ certs = NoFiles
    /\ InitProcess

Fairness ==
    /\ WF_vars(CollectHosts)
    /\ WF_vars(GenerateNginxConf)
    /\ WF_vars(ReloadNginx)
    /\ WF_vars(ObtainCertificate)
    /\ WF_vars(NextEvent)
    /\ WF_vars(LoopBody)

SpecLive == InitLive /\ [][Next]_vars /\ Fairness

\* ---------------------------------------------------------------- cert_is_valid alone
\* The certificate directory, the clock and the argument are drawn from bounded
\* sets; the one action is the call.
CertFiles ==
    UNION {[D -> {Cert(FALSE, 0)} \cup {Cert(TRUE, t) : t \in 0..MaxTime}] : D \in SUBSET Hosts}

InitCert ==
    /\ containers = <<>>
    /\ templateOk = TRUE
    /\ files = NoFiles /\ dirExists = FALSE
    /\ certs \in CertFiles
    /\ now \in 0..MaxTime
    /\ running = TRUE
    /\ pc = "cert_is_valid"
    /\ cause = "none"
    /\ event = NoEvent
    /\ hosts = <<>>
    /\ idx = 1
    /\ lastDomain \in Hosts
    /\ valid = FALSE
    /\ passNo = 0 /\ nEvents = 0
    /\ changed = FALSE /\ quiet = FALSE /\ prevFailed = FALSE
    /\ passMkdir = FALSE /\ passWrites = 0 /\ passReloads = 0 /\ passFailed = FALSE
    /\ checked = {} /\ issued = {} /\ issueFailed = {}

CallCertIsValid ==
    /\ pc = "cert_is_valid"
    /\ valid' = cert_is_valid(certs, lastDomain, now)
    /\ pc' = "returned"
    /\ UNCHANGED <<platformVars, diskVars, certs, now, templateOk, running, cause, event,
                   hosts, idx, lastDomain, passNo, quiet, prevFailed, nEvents, passObs>>

NextCert == CallCertIsValid

SpecCert == InitCert /\ [][NextCert]_vars

\* ================================================================ properties
\* The pass that last started has ended, normally or by an exception.
PassOver == passNo >= 1 /\ pc \in {"watching", "event", "stopped", "crashed"}
\* The pass that last started ran to its end.
PassCompleted == passNo >= 1 /\ pc \in {"watching", "event", "stopped"}
LifecycleActions == {"start", "stop", "die", "destroy"}
CarriesLabel(e) == e.HasActor /\ LABEL_NAME \in e.Attributes
\* The loop body handles the event in this step, the daemon not being shut down.
Handles == pc = "event" /\ pc' # "event" /\ running

\* C1: in every pass the reload is invoked only if the pass wrote at least one
\* config file; a pass that writes no file triggers no reload.
C1_ReloadOnlyAfterWrite == passReloads > 0 => passWrites > 0

\* C2: a pass that follows a pass, with no change of the platform state between the
\* two listings (and no writer of the config directory but the daemon), writes no
\* config file, whatever the workloads and the initial directory.
C2_SecondPassWritesNothing == quiet => passWrites = 0

\* C3: in a pass over two or more hosts, when the issuance command has failed for
\* one host, every host's config file is written and every other host of the pass
\* has its certificate checked and issued, wherever the failing host stands.
C3_IssuanceFailureIsolated ==
    (PassOver /\ Len(hosts) >= 2 /\ issueFailed # {}) =>
        /\ \A i \in 1..Len(hosts) : hosts[i].host \in DOMAIN files
        /\ \A i \in 1..Len(hosts) : i \in checked

\* C4: a failure of the reload command or of the issuance command never terminates
\* the daemon: it is not ended by the command's error.
C4_CommandFailureNeverTerminates ==
    (passFailed \/ issueFailed # {}) => ~(pc = "crashed" /\ cause = "CalledProcessError")

\* C5: a pass whose discovery returns no record ends at once: it does not create
\* the config directory, writes no file, runs no reload and checks or requests no
\* certificate.
C5_EmptyDiscoveryIsNoOp ==
    (passNo >= 1 /\ hosts = <<>>) =>
        /\ pc \notin {"generate", "reload", "certs"}
        /\ ~passMkdir
        /\ passWrites = 0
        /\ passReloads = 0
        /\ checked = {} /\ issued = {}

C5_Witness ==
    /\ passNo = 1 /\ pc = "watching" /\ cause = "none" /\ ~changed
    /\ hosts = <<>> /\ Len(containers) = 2
    /\ containers[1].label = "" /\ containers[2].label = None
    /\ ~dirExists

\* C6: when two records of a completed pass declare the same hostname with
\* different addresses, the hostname has a config file and its content is the
\* rendering of the last such record in listing order.
LastIndexOf(h) == CHOOSE i \in 1..Len(hosts) :
    hosts[i].host = h /\ \A j \in 1..Len(hosts) : hosts[j].host = h => j <= i

Collides(i, j) == i < j /\ hosts[i].host = hosts[j].host /\ hosts[i].ip # hosts[j].ip

C6_LastWorkloadWins ==
    PassCompleted =>
        \A i, j \in 1..Len(hosts) :
            Collides(i, j) =>
                /\ hosts[i].host \in DOMAIN files
                /\ files[hosts[i].host] = Render(hosts[LastIndexOf(hosts[i].host)])

C6_Witness ==
    /\ PassCompleted /\ Len(hosts) = 2 /\ Collides(1, 2)
    /\ passWrites = 2
    /\ files[hosts[2].host].ip = hosts[2].ip

\* C7: cert_is_valid(host) is true if and only if the certificate file exists,
\* parses, and expires strictly after now; an absent file, an unparseable file and
\* an expiry at or before now all give false.
Expiry(h) == certs[h].notAfter

C7_ValidIffUnexpired ==
    pc = "returned" =>
        /\ valid <=> (lastDomain \in DOMAIN certs /\ certs[lastDomain].parses
                          /\ now < Expiry(lastDomain))
        /\ lastDomain \notin DOMAIN certs => ~valid
        /\ (lastDomain \in DOMAIN certs /\ ~certs[lastDomain].parses) => ~valid
        /\ (lastDomain \in DOMAIN certs /\ Expiry(lastDomain) <= now) => ~valid

C7_Witness ==
    /\ pc = "returned" /\ ~valid
    /\ lastDomain \in DOMAIN certs /\ certs[lastDomain].parses
    /\ Expiry(lastDomain) = now

\* C8: in every pass with at least one record (that got as far as the reload), the
\* certificate of every record is checked, and the issuance command runs only for
\* a host whose check has just reported false.
C8_EveryCertificateChecked ==
    (PassOver /\ hosts # <<>> /\ passReloads > 0) =>
        /\ checked = 1..Len(hosts)
        /\ issued \subseteq checked
        /\ (checked # {} /\ valid /\ pc # "crashed") => (idx - 1) \notin issued

\* C9: a received event starts a pass if and only if its type is container, its
\* actor attributes carry the export-host label and its action is start, stop, die
\* or destroy; any other event starts no pass and changes nothing.
C9_FilterDecidesPass ==
    [][Handles =>
          IF event.Type = "container" /\ CarriesLabel(event) /\ event.Action \in LifecycleActions
          THEN pc' = "reconcile"
          ELSE pc' = "watching" /\ UNCHANGED <<diskVars, certs, cause, passVars, passObs>>]_vars

\* C10 as stated: a lifecycle event of a workload without the export label starts
\* a pass.
C10_UnlabelledEventStartsPass ==
    [][(Handles /\ event.Type = "container" /\ event.Action \in LifecycleActions
            /\ ~CarriesLabel(event))
          => pc' = "reconcile"]_vars

\* C10 amended: a lifecycle event of a workload without the export label starts no
\* pass: the daemon goes back to waiting, no config file changes and no reload
\* runs.
C10_UnlabelledEventStartsNoPass ==
    [][(Handles /\ event.Type = "container" /\ event.Action \in LifecycleActions
            /\ ~CarriesLabel(event))
          => /\ pc' = "watching"
             /\ passNo' = passNo
             /\ UNCHANGED <<diskVars, passWrites, passReloads>>]_vars

C10_Witness ==
    /\ pc = "watching" /\ running /\ nEvents = 1 /\ passNo = 1
    /\ event.Type = "container" /\ event.Action \in LifecycleActions
    /\ event.HasActor /\ ~CarriesLabel(event)
    /\ passWrites > 0

\* C11: an event without the Type field, without the Action field or without the
\* Actor attributes is ignored: the daemon goes back to waiting for the following
\* event and does not fail.
UnknownShape(e) == e.Type = Missing \/ e.Action = Missing \/ ~e.HasActor

C11_UnknownShapeIgnored ==
    [][(Handles /\ UnknownShape(event)) =>
          /\ pc' = "watching"
          /\ cause' = "none"
          /\ UNCHANGED <<diskVars, certs, passVars, passObs>>]_vars

\* C12: once the shutdown signal has cleared the flag, the next received event is
\* dropped unfiltered, whether it matches or not, the loop exits and no pass is
\* started; the signal changes nothing but the flag, and a pass that is in flight
\* under a cleared flag is not stopped and runs to completion: once it is over it
\* has made its writes, its reload and every certificate check.
PassPositions == {"reconcile", "generate", "reload", "certs"}

C12_ShutdownDropsNextEvent ==
    /\ [][(pc = "event" /\ ~running) =>
             /\ pc' = "stopped"
             /\ UNCHANGED <<diskVars, certs, cause, passVars, passObs>>]_vars
    /\ [][(~running /\ pc \in {"watching", "event", "stopped"}) =>
             (passNo' = passNo /\ pc' \notin PassPositions)]_vars
    /\ [][(running /\ ~running') =>
             UNCHANGED <<pc, cause, diskVars, certs, passVars, passObs>>]_vars
    /\ [][(~running /\ pc \in PassPositions) => pc' # "stopped"]_vars
    /\ []((~running /\ PassOver /\ hosts # <<>>) =>
             (passMkdir /\ passReloads = 1 /\ checked = 1..Len(hosts)))

\* C13: shutdown is observed only at an event boundary. The process reaches
\* "stopped" only from the loop body, on a received event, with the flag cleared;
\* with the flag cleared the daemon in Watching moves only by receiving an event,
\* so it waits there as long as none arrives. When the stream does deliver another
\* event, a daemon waiting with the flag cleared reaches "stopped", and one still
\* in a pass reaches "stopped" once the pass is over (or ends by the pass's
\* exception).
ShutdownPending == ~running /\ nEvents < MaxEvents

C13_StopsAtNextEvent ==
    /\ [][(pc' = "stopped" /\ pc # "stopped") => (pc = "event" /\ ~running)]_vars
    /\ [][(~running /\ pc = "watching") => pc' \in {"watching", "event"}]_vars
    /\ [][(~running /\ pc = "watching" /\ pc' = "event") => nEvents' = nEvents + 1]_vars
    /\ (ShutdownPending /\ pc = "watching") ~> (pc = "stopped")
    /\ (ShutdownPending /\ pc \in PassPositions) ~> (pc = "stopped" \/ pc = "crashed")

C13_Witness ==
    /\ pc = "stopped" /\ ~running /\ cause = "none"
    /\ nEvents = 1 /\ passNo = 1
    /\ event.Type = "network"

\* C14: on start the daemon makes exactly one pass before it reads any event: the
\* pass is the process's first step, whatever the platform lists and whether or not
\* the flag is already cleared, no second pass starts before an event is read, and
\* the first event is read in Watching after that one pass ran to its end.
RanToEnd == hosts = <<>> \/ (passMkdir /\ passReloads = 1 /\ checked = 1..Len(hosts))

C14_OnePassBeforeFirstEvent ==
    /\ [](passNo = 0 => (pc = "reconcile" /\ nEvents = 0 /\ ENABLED CollectHosts))
    /\ [](nEvents = 0 => passNo <= 1)
    /\ [][(nEvents = 0 /\ nEvents' > 0) =>
             (passNo = 1 /\ pc = "watching" /\ RanToEnd)]_vars

C14_Witness ==
    /\ pc = "event" /\ nEvents = 1 /\ passNo = 1
    /\ ~running
    /\ Len(hosts) = 1 /\ passWrites = 1 /\ passReloads = 1 /\ checked = {1}

\* C15: once a pass that listed the platform's current state has completed, the
\* config directory mirrors the declarations: the hostnames that have a config
\* file are exactly the hostnames of the pass's records (none when no workload
\* participates), each file holding the rendering of its record (up to the
\* surrounding whitespace that conf_needs_update ignores).
Declared == {hosts[i].host : i \in 1..Len(hosts)}

C15_DirectoryMirrorsPlatform ==
    (PassCompleted /\ ~changed /\ hosts = collect_hosts(containers)) =>
        /\ DOMAIN files = Declared
        /\ \A h \in Declared : strip(files[h]) = strip(Render(hosts[LastIndexOf(h)]))

\* C16: a failed reload command is not fatal for its pass. The step in which the
\* command fails raises nothing, leaves every config file as written and hands
\* over to the certificate loop at its first record; the command is run once per
\* pass, no file changes after it, and once the pass is over it has checked every
\* record's certificate and each record's file is in place.
ReloadFails == pc = "reload" /\ passReloads' = passReloads + 1 /\ passFailed'

C16_ReloadFailureNonFatal ==
    /\ [][ReloadFails =>
             /\ pc' = "certs" /\ idx' = 1 /\ cause' = cause
             /\ UNCHANGED <<files, passWrites, checked, issued>>]_vars
    /\ [](passReloads <= 1)
    /\ [][(passReloads = 1 /\ passReloads' = 1) => files' = files]_vars
    /\ []((PassOver /\ passReloads = 1 /\ passFailed) =>
             /\ checked = 1..Len(hosts)
             /\ issued \subseteq checked
             /\ \A h \in Declared : h \in DOMAIN files
                    /\ strip(files[h]) = strip(Render(hosts[LastIndexOf(h)])))

\* C17: after a pass whose reload command failed, the next pass that collects
\* records runs the reload command again: it goes from the render to the reload
\* whether or not it wrote a file, also when every file is already as rendered and
\* it writes none.
C17_NextPassReloadsAgain ==
    /\ [][(prevFailed /\ pc = "generate" /\ pc' # "generate") => pc' = "reload"]_vars
    /\ [][(prevFailed /\ pc = "reload" /\ pc' # "reload") => passReloads' = 1]_vars
    /\ []((prevFailed /\ hosts # <<>> /\ PassOver) => passReloads = 1)

C17_Witness ==
    /\ prevFailed /\ quiet /\ passNo = 2 /\ PassOver
    /\ hosts # <<>> /\ passWrites = 0 /\ passReloads = 1
    /\ \A i \in 1..Len(hosts) : files[hosts[i].host] = Render(hosts[i])

\* C18: when the listing of workloads fails in a pass started by an event, the pass
\* aborts without creating the directory, writing a file, reloading or checking a
\* certificate, and the daemon is back in Watching, waiting for the next event.
ListingFails == pc = "reconcile" /\ passNo' = passNo + 1 /\ cause' = "APIError"

C18_ListingFailureKeepsWatching ==
    [][(ListingFails /\ passNo >= 1) =>
          /\ pc' = "watching"
          /\ UNCHANGED diskVars
          /\ ~passMkdir' /\ passWrites' = 0 /\ passReloads' = 0 /\ checked' = {}]_vars

\* C19: passes are totally ordered and each pass is linear. A pass starts only from
\* the position the startup or the loop body leaves, the pass before it having run
\* to its end; config files are written only by the render step, before the reload
\* and before any certificate check of the pass; the reload command runs from the
\* reload step only, after the render, before any check, at most once per pass;
\* certificates are checked and requested only after the pass's reload.
C19_PassesLinear ==
    /\ [][passNo' # passNo =>
             /\ passNo' = passNo + 1
             /\ pc = "reconcile"
             /\ (passNo >= 1 => RanToEnd)]_vars
    /\ [][files' # files =>
             (pc = "generate" /\ passReloads = 0 /\ checked = {} /\ issued = {})]_vars
    /\ [][passReloads' > passReloads =>
             (pc = "reload" /\ passMkdir /\ passReloads = 0 /\ checked = {} /\ issued = {})]_vars
    /\ [][((checked' # checked /\ checked' # {}) \/ (issued' # issued /\ issued' # {})) =>
             (pc = "certs" /\ passReloads = 1)]_vars
    /\ [](passReloads \in {0, 1})

C19_Witness ==
    /\ passNo = 2 /\ PassCompleted /\ changed = FALSE
    /\ Len(hosts) = 2 /\ passWrites = 1 /\ passReloads = 1
    /\ checked = {1, 2} /\ issued = {2}

\* C20: the daemon never deletes a config file. In every step the hostnames that
\* have a file keep it and the directory stays; a file that appears or whose
\* content changes is, after the step, the rendering of a record of the running
\* pass that declares its hostname.
C20_FilesOnlyGrow ==
    [][/\ DOMAIN files \subseteq DOMAIN files'
       /\ (dirExists => dirExists')
       /\ \A h \in DOMAIN files' :
             (h \notin DOMAIN files \/ files'[h] # files[h]) =>
                 \E i \in 1..Len(hosts) : hosts[i].host = h /\ files'[h] = Render(hosts[i])]_vars

C20_Witness ==
    /\ PassCompleted /\ Declared = {"a"}
    /\ DOMAIN files = {"a", "b"}
    /\ files["a"] = Render([host |-> "a", ip |-> "ip2", port |-> "8080"])
    /\ files["b"].trail = 0

====
